---- MODULE Spec2Model ----
(***************************************************************************)
(* ConVerge backend: the in-memory graph store (store.py), the REST        *)
(* handlers over it (api/conversations.py, api/nodes.py), the streaming    *)
(* turn handler websocket_stream and the candidate fallback loop of        *)
(* OpenRouterClient.stream_response (services/llm.py).                     *)
(*                                                                         *)
(* Every handler is a coroutine on one event loop: the code between two    *)
(* awaits runs atomically, so each action below is the code from one       *)
(* suspension point to the next.                                           *)
(***************************************************************************)
EXTENDS Integers, Sequences, FiniteSets, TLC

(* ------------------------------ bounds ------------------------------ *)
\* uuid4() never repeats: identifiers are drawn from counters, and the
\* counters are capped.
MaxConvs == 2
MaxNodes == 3
\* streaming connections open at the same time, and tokens one turn relays
MaxConns == 1
MaxChunks == 2
\* how many candidates of the fallback list a turn goes through
MaxModels == 2
\* how many malformed fragments a connection reads
MaxMalformed == 1

(* ----------------------------- constants ---------------------------- *)
\* Optional[UUID] = None
None == 0
\* Optional[str] = None is <<>>, a present string s is <<s>>
NoStr == <<>>
Some(s) == <<s>>
\* Optional[int] = None is <<>>, a present int i is <<i>>
NoInt == <<>>
\* Python truthiness of an Optional[str]: None and "" are falsy
Truthy(o) == o # NoStr /\ o[1] # ""

ConvIds == 1..MaxConvs
NodeIds == 1..MaxNodes
\* request bodies the clients send
Contexts == {"You are a helpful AI."}
\* the content of the data lines of a candidate's stream, by position in
\* the turn
Tokens == <<"Hel", "lo", "!">>
\* int((time.time() - start_time) * 1000)
Latencies == {0}
Conns == 1..MaxConns
DefaultContext == "You are a helpful AI assistant. Assist the user with their questions and provide clear, concise answers."

VARIABLES
    conversations,  \* store.conversations: id -> Conversation
    nodes,          \* store.nodes: id -> ConversationNode
    edges,          \* store.edges: id -> ConversationEdge
    uuid,           \* how many conversation, node and edge ids uuid4() has produced
    reply,          \* the response to the last REST request
    detached,       \* Conversation objects deleted from the store that a
                    \* suspended websocket_stream still holds
    ws              \* the websocket_stream coroutines, one per connection

vars == <<conversations, nodes, edges, uuid, reply, detached, ws>>
store == <<conversations, nodes, edges>>
\* the connections there are: as many as Init provides
Slots == DOMAIN ws

(* ------------------------------ models.py --------------------------- *)
\* (mutant: active_node_id is left at the placeholder UUID(int=0))
Conversation_unlinked(root, t) ==
    [root_node_id |-> root, active_node_id |-> None, updated_at |-> t]

Conversation(root, t) ==
    [root_node_id |-> root, active_node_id |-> root, updated_at |-> t]

ConversationNode(c, parent, context, response, query, model) ==
    [conversation_id |-> c, parent_id |-> parent, context |-> context,
     response |-> response, query |-> query, model |-> model,
     latency_ms |-> NoInt]

\* (mutant: the edge points from the new node to its parent)
ConversationEdge_reversed(source, target, q) ==
    [source_node_id |-> target, target_node_id |-> source, query_text |-> q]

ConversationEdge(source, target, q) ==
    [source_node_id |-> source, target_node_id |-> target, query_text |-> q]

(* ------------------------------ store.py ---------------------------- *)
\* dict without one key / without a set of keys
Without(f, ks) == [k \in DOMAIN f \ ks |-> f[k]]

get_children(ns, node_id) == {k \in DOMAIN ns : ns[k].parent_id = node_id}

\* delete_node's local get_descendants: the children, then each child's
\* descendants (the list is only ever tested for membership)
RECURSIVE get_descendants(_, _)
get_descendants(ns, parent_id) ==
    LET children == get_children(ns, parent_id)
    IN  children \cup UNION {get_descendants(ns, child_id) : child_id \in children}

\* (mutant: only the node itself is deleted, its descendants are kept)
delete_node_nodes_no_cascade(ns, node_id) == Without(ns, {node_id})

\* store.delete_node on a stored node: the nodes and edges left
delete_node_nodes(ns, node_id) ==
    Without(ns, get_descendants(ns, node_id) \cup {node_id})

delete_node_edges(ns, es, node_id) ==
    LET descendants == get_descendants(ns, node_id)
    IN  Without(es, {e \in DOMAIN es :
                       \/ es[e].source_node_id = node_id
                       \/ es[e].target_node_id = node_id
                       \/ es[e].source_node_id \in descendants
                       \/ es[e].target_node_id \in descendants})

\* store.delete_conversation on a stored conversation
nodes_to_delete(ns, conversation_id) ==
    {k \in DOMAIN ns : ns[k].conversation_id = conversation_id}

delete_conversation_edges(ns, es, conversation_id) ==
    LET gone == nodes_to_delete(ns, conversation_id)
    IN  Without(es, {e \in DOMAIN es :
                       \/ es[e].source_node_id \in gone
                       \/ es[e].target_node_id \in gone})

\* store.get_ancestors: follow parent_id, inserting at the front, until a
\* node without parent_id or a parent that is not stored
RECURSIVE ancestors_from(_, _, _)
ancestors_from(ns, current, path) ==
    IF current \notin DOMAIN ns THEN path
    ELSE IF ns[current].parent_id # None
         THEN ancestors_from(ns, ns[current].parent_id, <<current>> \o path)
         ELSE <<current>> \o path

get_ancestors(ns, node_id) == ancestors_from(ns, node_id, <<>>)

get_conversation_nodes(ns, conversation_id) ==
    {k \in DOMAIN ns : ns[k].conversation_id = conversation_id}

get_conversation_edges(ns, es, conversation_id) ==
    {e \in DOMAIN es :
        es[e].source_node_id \in get_conversation_nodes(ns, conversation_id)}

\* sorted(conversations.values(), key=updated_at, reverse=True): a stable
\* sort, so equal keys keep dict (insertion) order
\* (mutant: reverse=True is left out)
RECURSIVE sorted_asc(_, _)
sorted_asc(cs, left) ==
    IF left = {} THEN <<>>
    ELSE LET best == CHOOSE c \in left :
                        \A d \in left :
                           \/ cs[c].updated_at < cs[d].updated_at
                           \/ cs[c].updated_at = cs[d].updated_at /\ c <= d
         IN  <<best>> \o sorted_asc(cs, left \ {best})

RECURSIVE sorted_desc(_, _)
sorted_desc(cs, left) ==
    IF left = {} THEN <<>>
    ELSE LET best == CHOOSE c \in left :
                        \A d \in left :
                           \/ cs[c].updated_at > cs[d].updated_at
                           \/ cs[c].updated_at = cs[d].updated_at /\ c <= d
         IN  <<best>> \o sorted_desc(cs, left \ {best})

list_conversations(cs) == sorted_desc(cs, DOMAIN cs)

(* ------------------------- datetime.utcnow() ------------------------ *)
\* Timestamps are only ever compared (list_conversations sorts on
\* updated_at), so when one is taken the stored ones are renumbered by
\* rank, 1 the oldest: their order is kept, their distance is not.
Ranked(cs) ==
    [c \in DOMAIN cs |->
        [cs[c] EXCEPT !.updated_at =
            Cardinality({d \in DOMAIN cs : cs[d].updated_at <= cs[c].updated_at})]]

Latest(cs) ==
    IF DOMAIN cs = {} THEN 0
    ELSE CHOOSE t \in {cs[c].updated_at : c \in DOMAIN cs} :
            \A c \in DOMAIN cs : cs[c].updated_at <= t

\* conversation c of cs gets updated_at = datetime.utcnow(): later than
\* every timestamp stored
utcnow(c, cs) ==
    Ranked([cs EXCEPT ![c].updated_at = Latest(Without(cs, {c})) + 1])

(* --------------------------- REST handlers -------------------------- *)
Reply(op, status, c, n, body) ==
    [op |-> op, status |-> status, conversation_id |-> c, node_id |-> n,
     body |-> body]
NoReply == Reply("none", 0, None, None, <<>>)

\* the store after a conversation and its root node are created together
\* (create_conversation, and list_conversations on an empty store)
NewConversation(context) ==
    LET c == uuid.conversations + 1
        r == uuid.nodes + 1
    IN  /\ uuid.conversations < MaxConvs
        /\ uuid.nodes < MaxNodes
        /\ nodes' = (r :> ConversationNode(c, None, context, NoStr, NoStr, NoStr)) @@ nodes
        /\ conversations' = utcnow(c, (c :> Conversation(r, 0)) @@ conversations)
        /\ uuid' = [uuid EXCEPT !.conversations = c, !.nodes = r]
        /\ UNCHANGED edges

create_conversation ==
    \E context \in Contexts :
        /\ NewConversation(context)
        /\ reply' = Reply("create_conversation", 200, uuid'.conversations,
                          uuid'.nodes, <<>>)
        /\ UNCHANGED <<detached, ws>>

\* (mutant: no default conversation is created)
list_conversations_route_readonly ==
    /\ reply' = Reply("list_conversations", 200, None, None,
                      list_conversations(conversations))
    /\ UNCHANGED <<conversations, nodes, edges, uuid, detached, ws>>

list_conversations_route ==
    /\ IF DOMAIN conversations = {}
       THEN NewConversation(DefaultContext)
       ELSE UNCHANGED <<conversations, nodes, edges, uuid>>
    /\ reply' = Reply("list_conversations", 200, None, None,
                      list_conversations(conversations'))
    /\ UNCHANGED <<detached, ws>>

\* the connections whose coroutine is suspended in receive_json holding the
\* Conversation object it looked up
Holders(conversation_id) ==
    {k \in Slots : ws[k].pc = "receive" /\ ws[k].conversation_id = conversation_id}

delete_conversation(conversation_id) ==
    IF conversation_id \notin DOMAIN conversations
    THEN /\ reply' = Reply("delete_conversation", 404, conversation_id, None, <<>>)
         /\ UNCHANGED <<conversations, nodes, edges, uuid, detached, ws>>
    ELSE /\ nodes' = Without(nodes, nodes_to_delete(nodes, conversation_id))
         /\ edges' = delete_conversation_edges(nodes, edges, conversation_id)
         /\ conversations' = Without(conversations, {conversation_id})
         /\ detached' = IF Holders(conversation_id) = {} THEN detached
                        ELSE (conversation_id :> conversations[conversation_id]) @@ detached
         /\ reply' = Reply("delete_conversation", 200, conversation_id, None, <<>>)
         /\ UNCHANGED <<uuid, ws>>

\* (mutant: the node's conversation is not compared with the path's)
select_node_unchecked(conversation_id, node_id) ==
    IF conversation_id \notin DOMAIN conversations \/ node_id \notin DOMAIN nodes
    THEN /\ reply' = Reply("select_node", 404, conversation_id, node_id, <<>>)
         /\ UNCHANGED <<conversations, nodes, edges, uuid, detached, ws>>
    ELSE /\ conversations' = utcnow(conversation_id,
                                [conversations EXCEPT
                                   ![conversation_id].active_node_id = node_id])
         /\ reply' = Reply("select_node", 200, conversation_id, node_id, <<>>)
         /\ UNCHANGED <<nodes, edges, uuid, detached, ws>>

\* (mutant: the active node is assigned before the node is looked up)
select_node_sets_before_lookup(conversation_id, node_id) ==
    IF conversation_id \notin DOMAIN conversations
    THEN /\ reply' = Reply("select_node", 404, conversation_id, node_id, <<>>)
         /\ UNCHANGED <<conversations, nodes, edges, uuid, detached, ws>>
    ELSE /\ conversations' = [conversations EXCEPT
                                 ![conversation_id].active_node_id = node_id]
         /\ reply' = Reply("select_node",
                           IF node_id \notin DOMAIN nodes THEN 404
                           ELSE IF nodes[node_id].conversation_id # conversation_id
                                THEN 400 ELSE 200,
                           conversation_id, node_id, <<>>)
         /\ UNCHANGED <<nodes, edges, uuid, detached, ws>>

select_node(conversation_id, node_id) ==
    IF conversation_id \notin DOMAIN conversations
    THEN /\ reply' = Reply("select_node", 404, conversation_id, node_id, <<>>)
         /\ UNCHANGED <<conversations, nodes, edges, uuid, detached, ws>>
    ELSE IF node_id \notin DOMAIN nodes
    THEN /\ reply' = Reply("select_node", 404, conversation_id, node_id, <<>>)
         /\ UNCHANGED <<conversations, nodes, edges, uuid, detached, ws>>
    ELSE IF nodes[node_id].conversation_id # conversation_id
    THEN /\ reply' = Reply("select_node", 400, conversation_id, node_id, <<>>)
         /\ UNCHANGED <<conversations, nodes, edges, uuid, detached, ws>>
    ELSE /\ conversations' = utcnow(conversation_id,
                                [conversations EXCEPT
                                   ![conversation_id].active_node_id = node_id])
         /\ reply' = Reply("select_node", 200, conversation_id, node_id, <<>>)
         /\ UNCHANGED <<nodes, edges, uuid, detached, ws>>

\* (mutant: the root is not refused)
delete_node_root_too(node_id) ==
    IF node_id \notin DOMAIN nodes
    THEN /\ reply' = Reply("delete_node", 404, None, node_id, <<>>)
         /\ UNCHANGED <<conversations, nodes, edges, uuid, detached, ws>>
    ELSE /\ nodes' = delete_node_nodes(nodes, node_id)
         /\ edges' = delete_node_edges(nodes, edges, node_id)
         /\ reply' = Reply("delete_node", 200, None, node_id, <<>>)
         /\ UNCHANGED <<conversations, uuid, detached, ws>>

delete_node(node_id) ==
    IF node_id \notin DOMAIN nodes
    THEN /\ reply' = Reply("delete_node", 404, None, node_id, <<>>)
         /\ UNCHANGED <<conversations, nodes, edges, uuid, detached, ws>>
    ELSE IF nodes[node_id].parent_id = None
    THEN /\ reply' = Reply("delete_node", 400, None, node_id, <<>>)
         /\ UNCHANGED <<conversations, nodes, edges, uuid, detached, ws>>
    ELSE /\ nodes' = delete_node_nodes(nodes, node_id)
         /\ edges' = delete_node_edges(nodes, edges, node_id)
         /\ reply' = Reply("delete_node", 200, None, node_id, <<>>)
         /\ UNCHANGED <<conversations, uuid, detached, ws>>

\* the read-only routes: a 404 for an unknown id, else the stored data
get_conversation(conversation_id) ==
    /\ reply' = IF conversation_id \notin DOMAIN conversations
                THEN Reply("get_conversation", 404, conversation_id, None, <<>>)
                ELSE Reply("get_conversation", 200, conversation_id, None,
                           <<conversations[conversation_id]>>)
    /\ UNCHANGED <<conversations, nodes, edges, uuid, detached, ws>>

get_conversation_graph(conversation_id) ==
    /\ reply' = IF conversation_id \notin DOMAIN conversations
                THEN Reply("get_conversation_graph", 404, conversation_id, None, <<>>)
                ELSE Reply("get_conversation_graph", 200, conversation_id, None,
                           <<conversations[conversation_id].active_node_id,
                             get_conversation_nodes(nodes, conversation_id),
                             get_conversation_edges(nodes, edges, conversation_id)>>)
    /\ UNCHANGED <<conversations, nodes, edges, uuid, detached, ws>>

get_node(node_id) ==
    /\ reply' = IF node_id \notin DOMAIN nodes
                THEN Reply("get_node", 404, None, node_id, <<>>)
                ELSE Reply("get_node", 200, None, node_id, <<nodes[node_id]>>)
    /\ UNCHANGED <<conversations, nodes, edges, uuid, detached, ws>>

\* (mutant: the path is returned without looking the node up first)
get_ancestors_route_unchecked(node_id) ==
    /\ reply' = Reply("get_ancestors", 200, None, node_id, get_ancestors(nodes, node_id))
    /\ UNCHANGED <<conversations, nodes, edges, uuid, detached, ws>>

get_ancestors_route(node_id) ==
    /\ reply' = IF node_id \notin DOMAIN nodes
                THEN Reply("get_ancestors", 404, None, node_id, <<>>)
                ELSE Reply("get_ancestors", 200, None, node_id,
                           get_ancestors(nodes, node_id))
    /\ UNCHANGED <<conversations, nodes, edges, uuid, detached, ws>>

get_children_route(node_id) ==
    /\ reply' = IF node_id \notin DOMAIN nodes
                THEN Reply("get_children", 404, None, node_id, <<>>)
                ELSE Reply("get_children", 200, None, node_id,
                           <<get_children(nodes, node_id)>>)
    /\ UNCHANGED <<conversations, nodes, edges, uuid, detached, ws>>

(* -------------------- services/llm.py: the candidates ---------------- *)
free_models == <<
    "meta-llama/llama-3.3-70b-instruct:free",
    "meta-llama/llama-3.2-3b-instruct:free",
    "amazon/nova-2-lite-v1:free",
    "openai/gpt-oss-20b:free",
    "google/gemma-3-27b-it:free",
    "mistralai/mistral-7b-instruct:free",
    "nvidia/nemotron-nano-9b-v2:free",
    "alibaba/tongyi-deepresearch-30b-a3b:free",
    "moonshotai/kimi-k2:free" >>

\* models_to_try = [model] if model else self.free_models
\* (of self.free_models, its first MaxModels entries)
models_to_try(model) ==
    IF Truthy(model) THEN <<model[1]>> ELSE SubSeq(free_models, 1, MaxModels)

(* ------------------- websocket_stream: one connection --------------- *)
BranchRequest(query, model, parent_node_id) ==
    [query |-> query, model |-> model, parent_node_id |-> parent_node_id]

StreamToken(content) == [type |-> "token", content |-> content, node_id |-> None]
StreamComplete(node_id) == [type |-> "complete", content |-> "", node_id |-> node_id]
StreamError(message) == [type |-> "error", content |-> message, node_id |-> None]

\* a coroutine that has not been started: no connection yet. Its locals:
\* conversation_id, the request's query and model (the fields read after
\* the request is received), new_node, response_chunks, and
\* stream_response's position: the candidate model_name (an index of
\* models_to_try) and whether it is reading that candidate's lines.
\* The rest is the record of the connection: sent is what the client has
\* received and gone whether it has disconnected; opened are the candidates
\* stream_response has opened, failed those that rejected or broke off,
\* ended the one whose stream ended with "[DONE]" or its last line,
\* malformed the number of malformed fragments read from the candidates.
\* messages is stream_response's local of that name, the payload of the
\* requests it sends.
NoMessages == [system |-> "", user |-> ""]

Idle ==
    [pc |-> "idle", conversation_id |-> None, query |-> "", model |-> NoStr,
     new_node |-> None, response_chunks |-> <<>>,
     model_name |-> 0, accepted |-> FALSE, messages |-> NoMessages,
     sent |-> <<>>, gone |-> FALSE, opened |-> <<>>, failed |-> {}, ended |-> 0,
     malformed |-> 0]

\* websocket.send_json: the message reaches the client, or the client is
\* gone and the call raises
send_json(w, message, delivered) ==
    IF delivered THEN [w EXCEPT !.sent = Append(@, message)]
    ELSE [w EXCEPT !.gone = TRUE]

\* the handler has left its try block (returned, or raised and was caught):
\* only the finally clause is left to run, which reads no local
Finally(w) ==
    [w EXCEPT !.pc = "finally", !.query = "", !.model = NoStr,
              !.response_chunks = <<>>, !.model_name = 0, !.accepted = FALSE,
              !.messages = NoMessages]

\* the Conversation object a handler got from store.get_conversation
ConversationObject(conversation_id) ==
    IF conversation_id \in DOMAIN conversations
    THEN conversations[conversation_id]
    ELSE detached[conversation_id]

\* objects nobody holds any more are dropped
Collect(d, w) ==
    [c \in {c \in DOMAIN d : \E k \in Slots :
                w[k].pc = "receive" /\ w[k].conversation_id = c} |-> d[c]]

\* "\n\n".join(context_parts)
RECURSIVE Join(_, _)
Join(sep, parts) ==
    IF Len(parts) = 0 THEN ""
    ELSE IF Len(parts) = 1 THEN parts[1]
    ELSE parts[1] \o sep \o Join(sep, Tail(parts))

\* the two fragments of each ancestor after the root that has both a query
\* and a response
RECURSIVE ancestor_parts(_, _)
ancestor_parts(ns, ancestors) ==
    IF Len(ancestors) = 0 THEN <<>>
    ELSE LET ancestor == ns[ancestors[1]]
         IN  (IF Truthy(ancestor.query) /\ Truthy(ancestor.response)
              THEN <<"User: " \o ancestor.query[1],
                     "Assistant: " \o ancestor.response[1]>>
              ELSE <<>>)
             \o ancestor_parts(ns, Tail(ancestors))

context_parts(ns, parent_id, query) ==
    LET ancestors == get_ancestors(ns, parent_id)
    IN  <<ns[ancestors[1]].context>>
        \o ancestor_parts(ns, Tail(ancestors))
        \o <<"User: " \o query>>

\* lines 324-327 and llm.py 61-64: the messages of the request to the
\* candidates: the context of the first ancestor as system message, and as
\* user message the fragments after it joined by newlines, a blank line and
\* "User: query". (The text begins with "User:" and ends with the query, and
\* no query of the requests begins or ends with white space: .strip()
\* removes nothing.)
messages(ns, parent_id, query) ==
    LET parts == context_parts(ns, parent_id, query)
    IN  [system |-> parts[1],
         user |-> Join("\n", Tail(parts)) \o "\n\nUser: " \o query]

\* lines 243-256: accept, look the conversation up, wait for the request
WsConnect(k, conversation_id) ==
    /\ ws[k].pc = "idle"
    /\ \A j \in Slots : j < k => ws[j].pc # "idle"  \* the first free slot
    /\ IF conversation_id \notin DOMAIN conversations
       THEN \E delivered \in BOOLEAN :
              ws' = [ws EXCEPT ![k] = Finally(send_json(
                        [@ EXCEPT !.conversation_id = conversation_id],
                        StreamError("Conversation not found"), delivered))]
       ELSE ws' = [ws EXCEPT ![k].pc = "receive",
                             ![k].conversation_id = conversation_id]
    /\ reply' = NoReply
    /\ UNCHANGED <<conversations, nodes, edges, uuid, detached>>

\* receive_json raises WebSocketDisconnect: the client left without a request
WsReceiveDisconnect(k) ==
    /\ ws[k].pc = "receive"
    /\ ws' = [ws EXCEPT ![k] = Finally([@ EXCEPT !.gone = TRUE])]
    /\ detached' = Collect(detached, ws')
    /\ reply' = NoReply
    /\ UNCHANGED <<conversations, nodes, edges, uuid>>

\* (mutant: the message is validated only after a node was stored for it)
WsReceiveMalformed_after_create(k) ==
    /\ ws[k].pc = "receive"
    /\ uuid.nodes < MaxNodes
    /\ nodes' = ((uuid.nodes + 1) :> ConversationNode(
                    ws[k].conversation_id, None, "", Some(""), NoStr, NoStr)) @@ nodes
    /\ uuid' = [uuid EXCEPT !.nodes = @ + 1]
    /\ \E delivered \in BOOLEAN :
         ws' = [ws EXCEPT ![k] = Finally(send_json(@,
                   StreamError("validation error"), delivered))]
    /\ detached' = Collect(detached, ws')
    /\ reply' = NoReply
    /\ UNCHANGED <<conversations, edges>>

\* receive_json or BranchRequest(**data) raises: the message is no branch request
WsReceiveMalformed(k) ==
    /\ ws[k].pc = "receive"
    /\ \E delivered \in BOOLEAN :
         ws' = [ws EXCEPT ![k] = Finally(send_json(@,
                   StreamError("validation error"), delivered))]
    /\ detached' = Collect(detached, ws')
    /\ reply' = NoReply
    /\ UNCHANGED <<conversations, nodes, edges, uuid>>

\* lines 265-273: the parent is not stored
WsParentNotFound(k, request) ==
    LET conversation == ConversationObject(ws[k].conversation_id)
        parent_id == IF request.parent_node_id # None
                     THEN request.parent_node_id
                     ELSE conversation.active_node_id
    IN  /\ ws[k].pc = "receive"
        /\ parent_id \notin DOMAIN nodes
        /\ \E delivered \in BOOLEAN :
             ws' = [ws EXCEPT ![k] = Finally(send_json(@,
                       StreamError("Parent node not found"), delivered))]
        /\ detached' = Collect(detached, ws')
        /\ reply' = NoReply
        /\ UNCHANGED <<conversations, nodes, edges, uuid>>

\* (mutant: the node and its edge are stored, the active node is left where
\* it was)
WsBranchWithin_keeps_active(k, request, cap) ==
    LET conversation_id == ws[k].conversation_id
        conversation == ConversationObject(conversation_id)
        parent_id == IF request.parent_node_id # None
                     THEN request.parent_node_id
                     ELSE conversation.active_node_id
        new_node == uuid.nodes + 1
        edge == uuid.edges + 1
    IN  /\ ws[k].pc = "receive"
        /\ parent_id \in DOMAIN nodes
        /\ uuid.nodes < cap
        /\ nodes' = (new_node :> ConversationNode(
                        conversation_id, parent_id,
                        Join("\n\n", context_parts(nodes, parent_id, request.query)),
                        Some(""), Some(request.query), request.model)) @@ nodes
        /\ edges' = (edge :> ConversationEdge(parent_id, new_node, request.query)) @@ edges
        /\ uuid' = [uuid EXCEPT !.nodes = new_node, !.edges = edge]
        /\ ws' = [ws EXCEPT ![k].pc = "stream", ![k].query = request.query,
                            ![k].model = request.model,
                            ![k].new_node = new_node, ![k].model_name = 1,
                            ![k].messages = messages(nodes, parent_id, request.query)]
        /\ IF conversation_id \in DOMAIN conversations
           THEN /\ conversations' = utcnow(conversation_id, conversations)
                /\ detached' = detached
           ELSE /\ detached' = Collect(detached, ws')
                /\ conversations' = conversations
        /\ reply' = NoReply

\* lines 265-320: resolve the parent, build the context, store the new node
\* and its edge, move the active node, and call stream_response; uuid4()
\* has node ids left while fewer than cap were produced
WsBranchWithin(k, request, cap) ==
    LET conversation_id == ws[k].conversation_id
        conversation == ConversationObject(conversation_id)
        parent_id == IF request.parent_node_id # None
                     THEN request.parent_node_id
                     ELSE conversation.active_node_id
        new_node == uuid.nodes + 1
        edge == uuid.edges + 1
        \* (on an object out of the store the timestamp is never read)
        updated == [conversation EXCEPT !.active_node_id = new_node]
    IN  /\ ws[k].pc = "receive"
        /\ parent_id \in DOMAIN nodes
        /\ uuid.nodes < cap
        /\ nodes' = (new_node :> ConversationNode(
                        conversation_id, parent_id,
                        Join("\n\n", context_parts(nodes, parent_id, request.query)),
                        Some(""), Some(request.query), request.model)) @@ nodes
        /\ edges' = (edge :> ConversationEdge(parent_id, new_node, request.query)) @@ edges
        /\ uuid' = [uuid EXCEPT !.nodes = new_node, !.edges = edge]
        /\ ws' = [ws EXCEPT ![k].pc = "stream", ![k].query = request.query,
                            ![k].model = request.model,
                            ![k].new_node = new_node, ![k].model_name = 1,
                            ![k].messages = messages(nodes, parent_id, request.query)]
        /\ IF conversation_id \in DOMAIN conversations
           THEN /\ conversations' = utcnow(conversation_id,
                                       [conversations EXCEPT ![conversation_id] = updated])
                /\ detached' = detached
           ELSE /\ detached' = Collect([detached EXCEPT ![conversation_id] = updated], ws')
                /\ conversations' = conversations
        /\ reply' = NoReply

WsBranch(k, request) == WsBranchWithin(k, request, MaxNodes)

\* (mutant: there is no finally clause: the connection is closed only at the
\* end of a completed turn)
WsClose_completed_only(k) ==
    /\ ws[k].pc = "finally" /\ ws[k].ended # 0
    /\ ws' = [ws EXCEPT ![k] = Idle]
    /\ reply' = NoReply
    /\ UNCHANGED <<conversations, nodes, edges, uuid, detached>>

\* lines 368-372: websocket.close(), errors swallowed; the coroutine and
\* its locals are gone, and the slot is free for the next connection
WsClose(k) ==
    /\ ws[k].pc = "finally"
    /\ ws' = [ws EXCEPT ![k] = Idle]
    /\ reply' = NoReply
    /\ UNCHANGED <<conversations, nodes, edges, uuid, detached>>

(* ------------- OpenRouterClient.stream_response, per turn ----------- *)
\* the candidate list of the turn: websocket_stream passes model=None
Candidates(w) == models_to_try(NoStr)

\* (mutant: the exception is swallowed, no error message is sent)
Failed_silently(w, message, delivered) == Finally(w)

\* the handler's except Exception: the error message is sent and the
\* connection closed
Failed(w, message, delivered) == Finally(send_json(w, StreamError(message), delivered))

\* the loop moves to the next candidate, or past the last one raises
\* "All models failed"
NextCandidate(w, delivered) ==
    IF w.model_name < Len(Candidates(w))
    THEN [w EXCEPT !.model_name = @ + 1, !.accepted = FALSE]
    ELSE Failed([w EXCEPT !.accepted = FALSE], "All models failed", delivered)

\* (mutant: when the last candidate rejects, the node of the turn is
\* removed again)
LlmReject_rollback(k) ==
    /\ ws[k].pc = "stream" /\ ~ws[k].accepted
    /\ \E delivered \in BOOLEAN :
         ws' = [ws EXCEPT ![k] = NextCandidate(
                   [@ EXCEPT !.opened = Append(@, ws[k].model_name),
                             !.failed = @ \cup {ws[k].model_name}], delivered)]
    /\ nodes' = IF ws'[k].pc = "finally" THEN Without(nodes, {ws[k].new_node})
                ELSE nodes
    /\ reply' = NoReply
    /\ UNCHANGED <<conversations, edges, uuid, detached>>

\* the candidate is opened and answers with a status other than 200, or the
\* request raises
LlmReject(k) ==
    /\ ws[k].pc = "stream" /\ ~ws[k].accepted
    /\ \E delivered \in BOOLEAN :
         ws' = [ws EXCEPT ![k] = NextCandidate(
                   [@ EXCEPT !.opened = Append(@, ws[k].model_name),
                             !.failed = @ \cup {ws[k].model_name}], delivered)]
    /\ reply' = NoReply
    /\ UNCHANGED <<conversations, nodes, edges, uuid, detached>>

\* the candidate is opened and answers 200
LlmAccept(k) ==
    /\ ws[k].pc = "stream" /\ ~ws[k].accepted
    /\ ws' = [ws EXCEPT ![k].accepted = TRUE,
                        ![k].opened = Append(@, ws[k].model_name)]
    /\ reply' = NoReply
    /\ UNCHANGED <<conversations, nodes, edges, uuid, detached>>

\* (mutant: a send that fails is ignored and the stream goes on)
LlmToken_ignores_disconnect(k, token) ==
    /\ ws[k].pc = "stream" /\ ws[k].accepted
    /\ Len(ws[k].response_chunks) < MaxChunks
    /\ \E delivered \in BOOLEAN :
         LET w == [ws[k] EXCEPT !.response_chunks = Append(@, token)]
         IN  ws' = [ws EXCEPT ![k] = send_json(w, StreamToken(token), delivered)]
    /\ reply' = NoReply
    /\ UNCHANGED <<conversations, nodes, edges, uuid, detached>>

\* a data line with content: the token is yielded, appended to
\* response_chunks and sent; a failed send ends the handler
LlmToken(k, token) ==
    /\ ws[k].pc = "stream" /\ ws[k].accepted
    /\ Len(ws[k].response_chunks) < MaxChunks
    /\ \E delivered \in BOOLEAN :
         LET w == [ws[k] EXCEPT !.response_chunks = Append(@, token)]
         IN  ws' = [ws EXCEPT ![k] =
                      IF delivered THEN send_json(w, StreamToken(token), TRUE)
                      ELSE Finally(send_json(w, StreamToken(token), FALSE))]
    /\ reply' = NoReply
    /\ UNCHANGED <<conversations, nodes, edges, uuid, detached>>

\* reading the lines raises: except Exception, continue
LlmStreamError(k) ==
    /\ ws[k].pc = "stream" /\ ws[k].accepted
    /\ \E delivered \in BOOLEAN :
         ws' = [ws EXCEPT ![k] = NextCandidate(
                   [@ EXCEPT !.failed = @ \cup {ws[k].model_name}], delivered)]
    /\ reply' = NoReply
    /\ UNCHANGED <<conversations, nodes, edges, uuid, detached>>

\* (mutant: after the end of the stream the loop goes on to the next
\* candidate instead of returning)
LlmDone_continue(k) ==
    /\ ws[k].pc = "stream" /\ ws[k].accepted
    /\ \E delivered \in BOOLEAN :
         ws' = [ws EXCEPT ![k] = NextCandidate(
                   [@ EXCEPT !.ended = ws[k].model_name], delivered)]
    /\ reply' = NoReply
    /\ UNCHANGED <<conversations, nodes, edges, uuid, detached>>

\* "[DONE]" or the end of the lines: stream_response returns, and lines
\* 334-355 write the response to the node object and send the completion
LlmDone(k) ==
    /\ ws[k].pc = "stream" /\ ws[k].accepted
    /\ \E delivered \in BOOLEAN, latency_ms \in Latencies :
         LET w == ws[k]
             new_node == w.new_node
         IN  /\ nodes' = IF new_node \in DOMAIN nodes
                         THEN [nodes EXCEPT
                                 ![new_node].response = Some(Join("", w.response_chunks)),
                                 ![new_node].latency_ms = <<latency_ms>>,
                                 ![new_node].model =
                                     IF Truthy(w.model) THEN w.model
                                     ELSE Some("auto-selected-free-model")]
                         ELSE nodes
             /\ ws' = [ws EXCEPT ![k] = Finally(send_json(
                          [w EXCEPT !.ended = w.model_name],
                          StreamComplete(new_node), delivered))]
    /\ reply' = NoReply
    /\ UNCHANGED <<conversations, edges, uuid, detached>>

\* JSON values as json.loads returns them, and a raised exception
JNull == [t |-> "null"]
JArr(items) == [t |-> "arr", v |-> items]
JObj(members) == [t |-> "obj", v |-> members]
Raise(exception) == [t |-> "raise", v |-> exception]

\* d.get(key, default): only a dict has the method
dict_get(d, key, default) ==
    IF d.t = "raise" THEN d
    ELSE IF d.t # "obj" THEN Raise("AttributeError")
    ELSE IF key \in DOMAIN d.v THEN d.v[key] ELSE default

\* x[0]: the first item of a list, IndexError on an empty one, KeyError on a
\* dict (whose keys are strings), TypeError on None
first_item(x) ==
    IF x.t = "raise" THEN x
    ELSE IF x.t = "arr" THEN (IF Len(x.v) > 0 THEN x.v[1] ELSE Raise("IndexError"))
    ELSE IF x.t = "obj" THEN Raise("KeyError")
    ELSE Raise("TypeError")

\* line 113: data.get("choices", [{}])[0].get("delta", {}).get("content")
delta_content(data) ==
    dict_get(dict_get(first_item(dict_get(data, "choices", JArr(<<JObj(<<>>)>>))),
                      "delta", JObj(<<>>)),
             "content", JNull)

\* a data line: its payload is JSON or not
Payload(data) == [json |-> TRUE, data |-> data]
NotJson == [json |-> FALSE]

\* lines 112-113 on the payload of a data line
fragment_content(fragment) ==
    IF fragment.json THEN delta_content(fragment.data)
    ELSE Raise("JSONDecodeError")

\* malformed fragments: text that is not JSON, {}, {"choices": []},
\* {"choices": [{"delta": {}}]}, {"choices": null},
\* {"choices": [{"delta": null}]} and []
Fragments == <<
    NotJson,
    Payload(JObj(<<>>)),
    Payload(JObj("choices" :> JArr(<<>>))),
    Payload(JObj("choices" :> JArr(<<JObj("delta" :> JObj(<<>>))>>))),
    Payload(JObj("choices" :> JNull)),
    Payload(JObj("choices" :> JArr(<<JObj("delta" :> JNull)>>))),
    Payload(JArr(<<>>)) >>

\* lines 111-117 and 126-129: a data line without content. The exceptions
\* of line 115 and a content of None or "" go on to the next line; any other
\* exception leaves the lines of the candidate for the except Exception of
\* line 126, which goes on to the next candidate
LlmFragment(k, fragment) ==
    /\ ws[k].pc = "stream" /\ ws[k].accepted
    /\ ws[k].malformed < MaxMalformed
    /\ LET content == fragment_content(fragment)
           w == [ws[k] EXCEPT !.malformed = @ + 1]
       IN  \E delivered \in BOOLEAN :
             ws' = [ws EXCEPT ![k] =
                      IF /\ content.t = "raise"
                         /\ content.v \notin {"JSONDecodeError", "KeyError", "IndexError"}
                      THEN NextCandidate(
                               [w EXCEPT !.failed = @ \cup {w.model_name}], delivered)
                      ELSE w]
    /\ reply' = NoReply
    /\ UNCHANGED <<conversations, nodes, edges, uuid, detached>>

\* the next data line of the stream carries the next of Tokens
LlmData(k) ==
    /\ Len(ws[k].response_chunks) < Len(Tokens)
    /\ LlmToken(k, Tokens[Len(ws[k].response_chunks) + 1])

(* --------------------------- specification -------------------------- *)
\* the branch requests clients send: a query with or without a model, the
\* parent left to the active node or named by any node id
Requests ==
    {BranchRequest(qm[1], qm[2], p) :
        qm \in {<<"Hi", NoStr>>, <<"More", Some("openai/gpt-4o")>>},
        p \in {None} \cup NodeIds}

Init ==
    /\ conversations = <<>>
    /\ nodes = <<>>
    /\ edges = <<>>
    /\ uuid = [conversations |-> 0, nodes |-> 0, edges |-> 0]
    /\ reply = NoReply
    /\ detached = <<>>
    /\ ws = [k \in Conns |-> Idle]

Next ==
    \/ create_conversation
    \/ list_conversations_route
    \/ \E c \in ConvIds : delete_conversation(c)
    \/ \E c \in ConvIds, n \in NodeIds : select_node(c, n)
    \/ \E n \in NodeIds : delete_node(n)
    \/ \E c \in ConvIds : get_conversation(c)
    \/ \E c \in ConvIds : get_conversation_graph(c)
    \/ \E n \in NodeIds : get_node(n)
    \/ \E n \in NodeIds : get_ancestors_route(n)
    \/ \E n \in NodeIds : get_children_route(n)
    \/ \E k \in Conns, c \in ConvIds : WsConnect(k, c)
    \/ \E k \in Conns : WsReceiveDisconnect(k)
    \/ \E k \in Conns : WsReceiveMalformed(k)
    \/ \E k \in Conns, r \in Requests : WsParentNotFound(k, r)
    \/ \E k \in Conns, r \in Requests : WsBranch(k, r)
    \/ \E k \in Conns : LlmReject(k)
    \/ \E k \in Conns : LlmAccept(k)
    \/ \E k \in Conns : LlmData(k)
    \/ \E k \in Conns : LlmStreamError(k)
    \/ \E k \in Conns : LlmDone(k)
    \/ \E k \in Conns : WsClose(k)

Spec == Init /\ [][Next]_vars

\* The same handlers with one more node id and fewer requests: conversations
\* are created and deleted, turns are made under any stored node and answered
\* or rejected. Every behaviour of DeepSpec is one of the program's.
DeepNodeIds == 1..(MaxNodes + 1)

DeepRequests ==
    {BranchRequest(q, NoStr, p) : q \in {"Hi"}, p \in {None} \cup DeepNodeIds}

DeepNext ==
    \/ create_conversation
    \/ \E c \in ConvIds : delete_conversation(c)
    \/ \E k \in Conns, c \in ConvIds : WsConnect(k, c)
    \/ \E k \in Conns, r \in DeepRequests : WsBranchWithin(k, r, MaxNodes + 1)
    \/ \E k \in Conns : LlmReject(k)
    \/ \E k \in Conns : LlmAccept(k)
    \/ \E k \in Conns : LlmData(k)
    \/ \E k \in Conns : LlmDone(k)
    \/ \E k \in Conns : WsClose(k)

DeepSpec == Init /\ [][DeepNext]_vars

\* The streaming handler alone, with the malformed fragments among the data
\* lines: conversations are created, and connections go every way from
\* accept to close.
ClientRequest(k) ==
    \/ WsReceiveDisconnect(k)
    \/ WsReceiveMalformed(k)
    \/ \E r \in Requests : WsParentNotFound(k, r)
    \/ \E r \in Requests : WsBranch(k, r)

EngineStep(k) ==
    \/ LlmReject(k)
    \/ LlmAccept(k)
    \/ LlmData(k)
    \/ \E i \in DOMAIN Fragments : LlmFragment(k, Fragments[i])
    \/ LlmStreamError(k)
    \/ LlmDone(k)

StreamNext ==
    \/ create_conversation
    \/ \E k \in Conns, c \in ConvIds : WsConnect(k, c)
    \/ \E k \in Conns : ClientRequest(k)
    \/ \E k \in Conns : EngineStep(k)
    \/ \E k \in Conns : WsClose(k)

StreamSpec == Init /\ [][StreamNext]_vars

\* The same with what the event loop and the two peers provide: the client
\* of a connection that waits for its request sends a message or leaves,
\* the candidate that is awaited answers, sends its next line or ends, and
\* a handler that has reached its finally clause runs it.
LiveSpec ==
    /\ StreamSpec
    /\ \A k \in Conns :
         /\ WF_vars(ClientRequest(k))
         /\ WF_vars(EngineStep(k))
         /\ WF_vars(WsClose(k))

\* Two turns at a time: one connection more than MaxConns, every request
\* with the parent left to the active node, every candidate accepting.
OverlapRequests ==
    {BranchRequest(q, NoStr, None) : q \in {"Hi", "More"}}

OverlapConns == 1..(MaxConns + 1)

OverlapInit ==
    /\ conversations = <<>>
    /\ nodes = <<>>
    /\ edges = <<>>
    /\ uuid = [conversations |-> 0, nodes |-> 0, edges |-> 0]
    /\ reply = NoReply
    /\ detached = <<>>
    /\ ws = [k \in OverlapConns |-> Idle]

OverlapNext ==
    \/ create_conversation
    \/ \E k \in OverlapConns, c \in ConvIds : WsConnect(k, c)
    \/ \E k \in OverlapConns, r \in OverlapRequests : WsBranch(k, r)
    \/ \E k \in OverlapConns : LlmAccept(k)
    \/ \E k \in OverlapConns : LlmData(k)
    \/ \E k \in OverlapConns : LlmDone(k)
    \/ \E k \in OverlapConns : WsClose(k)

OverlapSpec == OverlapInit /\ [][OverlapNext]_vars

(* ------------------------------ claims ------------------------------ *)
\* the nodes reached from node_id by following parent_id upwards, node_id
\* itself left out
RECURSIVE ParentChain(_, _)
ParentChain(ns, node_id) ==
    IF node_id \notin DOMAIN ns \/ ns[node_id].parent_id = None THEN {}
    ELSE {ns[node_id].parent_id} \cup ParentChain(ns, ns[node_id].parent_id)

\* C1: every stored conversation's active_node_id is a stored node of that
\* conversation.
ActiveNodeStored ==
    \A c \in DOMAIN conversations :
        /\ conversations[c].active_node_id \in DOMAIN nodes
        /\ nodes[conversations[c].active_node_id].conversation_id = c

\* C2: the nodes of every stored conversation form a tree rooted at
\* root_node_id: one node without parent, which is the root, and every other
\* node's parent stored and of the same conversation.
ConversationIsTree ==
    \A c \in DOMAIN conversations :
        LET mine == get_conversation_nodes(nodes, c)
        IN  /\ {n \in mine : nodes[n].parent_id = None} = {conversations[c].root_node_id}
            /\ \A n \in mine :
                 nodes[n].parent_id # None =>
                    /\ nodes[n].parent_id \in DOMAIN nodes
                    /\ nodes[nodes[n].parent_id].conversation_id = c

\* C3: for every stored node n, get_ancestors(n) starts at the root of n's
\* conversation, ends at n, follows parent links and repeats no node.
AncestorsIsRootPath ==
    \A n \in DOMAIN nodes :
        LET path == get_ancestors(nodes, n)
            c == nodes[n].conversation_id
        IN  /\ Len(path) >= 1
            /\ c \in DOMAIN conversations
            /\ path[1] = conversations[c].root_node_id
            /\ nodes[path[1]].parent_id = None
            /\ path[Len(path)] = n
            /\ \A i \in 2..Len(path) : nodes[path[i]].parent_id = path[i - 1]
            /\ \A i, j \in 1..Len(path) : path[i] = path[j] => i = j

DeleteConversationRemovesOnlyItsOwn ==
    [][(reply'.op = "delete_conversation" /\ reply'.status = 200) =>
        LET c == reply'.conversation_id
        IN  /\ DOMAIN conversations' = DOMAIN conversations \ {c}
            /\ \A d \in DOMAIN conversations' : conversations'[d] = conversations[d]
            /\ DOMAIN nodes' = {n \in DOMAIN nodes : nodes[n].conversation_id # c}
            /\ \A n \in DOMAIN nodes' : nodes'[n] = nodes[n]
            /\ \A e \in get_conversation_edges(nodes, edges, c) : e \notin DOMAIN edges'
            /\ \A d \in DOMAIN conversations' :
                 \A e \in get_conversation_edges(nodes, edges, d) :
                    e \in DOMAIN edges' /\ edges'[e] = edges[e]]_vars

\* C6: DELETE /nodes/{id} of a node without parent is answered 400 and
\* changes nothing; a node without parent leaves the store only in a
\* successful delete of its conversation.
RootDeleteRejected ==
    [][/\ (/\ reply'.op = "delete_node"
           /\ reply'.node_id \in DOMAIN nodes
           /\ nodes[reply'.node_id].parent_id = None)
          => (reply'.status = 400 /\ UNCHANGED store)
       /\ \A n \in DOMAIN nodes :
            (nodes[n].parent_id = None /\ n \notin DOMAIN nodes')
            => /\ reply'.op = "delete_conversation" /\ reply'.status = 200
               /\ reply'.conversation_id = nodes[n].conversation_id]_vars

\* the delete of a root that has a child was rejected
RootWithChildRejected ==
    /\ reply.op = "delete_node" /\ reply.status = 400
    /\ get_children(nodes, reply.node_id) # {}

\* C7: select(c, n) is answered 200 exactly when c is stored, n is stored
\* and n is of c, and then c's active node is n; 404 when c or n is not
\* stored, 400 when both are and n is of another conversation, and then no
\* conversation changes.
SelectAcceptsOwnNodesOnly ==
    [][(reply'.op = "select_node") =>
        LET c == reply'.conversation_id
            n == reply'.node_id
            known == c \in DOMAIN conversations /\ n \in DOMAIN nodes
        IN  IF known /\ nodes[n].conversation_id = c
            THEN /\ reply'.status = 200
                 /\ conversations'[c].active_node_id = n
            ELSE /\ reply'.status = IF known THEN 400 ELSE 404
                 /\ conversations' = conversations]_vars

\* a node of another conversation was refused with 400
SelectOfForeignNodeRefused ==
    /\ reply.op = "select_node" /\ reply.status = 400
    /\ reply.conversation_id \in DOMAIN conversations
    /\ reply.node_id \in DOMAIN nodes
    /\ nodes[reply.node_id].conversation_id # reply.conversation_id

IsTerminal(message) == message.type \in {"complete", "error"}

\* nothing follows a terminal message
NothingAfterTerminal(sent) ==
    \A i \in 1..Len(sent) : IsTerminal(sent[i]) => i = Len(sent)

\* C8 as claimed: on every connection the messages sent are tokens and then
\* exactly one terminal message, on every path, a client disconnect included.
ExactlyOneTerminal ==
    \A k \in Conns :
        /\ NothingAfterTerminal(ws[k].sent)
        /\ ws[k].pc = "finally" =>
              /\ Len(ws[k].sent) >= 1
              /\ IsTerminal(ws[k].sent[Len(ws[k].sent)])

\* C8 as amended: the messages sent are tokens and then at most one terminal
\* message; a handler that ends with the client still there has sent exactly
\* one, and one whose client disconnected (receive_json or a send raised)
\* has sent none.
OneTerminalUnlessClientGone ==
    \A k \in Conns :
        /\ NothingAfterTerminal(ws[k].sent)
        /\ ws[k].pc = "finally" =>
              IF ws[k].gone
              THEN \A i \in 1..Len(ws[k].sent) : ~IsTerminal(ws[k].sent[i])
              ELSE /\ Len(ws[k].sent) >= 1
                   /\ IsTerminal(ws[k].sent[Len(ws[k].sent)])

\* two tokens and then the completion have been sent, the client still there
TokensThenComplete ==
    \E k \in Conns :
        /\ ws[k].pc = "finally" /\ ~ws[k].gone
        /\ Len(ws[k].sent) = 3
        /\ ws[k].sent[1].type = "token" /\ ws[k].sent[2].type = "token"
        /\ ws[k].sent[3].type = "complete"

\* C9: the candidates are opened in list order without a gap, each after the
\* one before it has failed, and none after one's stream has ended.
CandidatesOpenedInOrder ==
    \A k \in Conns :
        LET o == ws[k].opened
        IN  /\ \A i \in 1..Len(o) : o[i] = i
            /\ \A i \in 2..Len(o) : (i - 1) \in ws[k].failed
            /\ ws[k].ended # 0 => (Len(o) >= 1 /\ o[Len(o)] = ws[k].ended)
            /\ Len(o) <= Len(Candidates(ws[k]))

\* the first candidate failed, the second was opened and its stream ended
SecondCandidateEnded ==
    \E k \in Conns : ws[k].opened = <<1, 2>> /\ ws[k].ended = 2 /\ 1 \in ws[k].failed

\* C10: once a token has been emitted in a turn no further candidate is
\* opened, and the all-candidates-failed error is only ever sent as the
\* first message of a connection.
NoFallbackAfterFirstToken ==
    [][\A k \in Conns :
         /\ (ws[k].pc = "stream" /\ ws[k].response_chunks # <<>>)
               => ws'[k].opened = ws[k].opened
         /\ \A i \in 1..Len(ws'[k].sent) :
               ws'[k].sent[i] = StreamError("All models failed") => i = 1]_vars

\* C11: a turn whose request supplied a model tries exactly that model; only
\* a turn without one goes through the fallback list.
RequestedModelIsOnlyCandidate ==
    \A k \in Conns :
        ws[k].pc = "stream" => Candidates(ws[k]) = models_to_try(ws[k].model)

\* the contents of the token messages among sent, in order
Relayed(sent) ==
    LET tokens == SelectSeq(sent, LAMBDA m : m.type = "token")
    IN  [i \in 1..Len(tokens) |-> tokens[i].content]

RECURSIVE Concatenated(_)
Concatenated(chunks) ==
    IF Len(chunks) = 0 THEN ""
    ELSE Concatenated(SubSeq(chunks, 1, Len(chunks) - 1)) \o chunks[Len(chunks)]

\* C12: the step that starts a turn adds exactly one node N under a stored
\* parent P, with the request's query, and exactly one edge P -> N with that
\* query, and makes N the active node; the turn's own steps until its end
\* change nothing stored; the step that ends it writes the concatenation of
\* the tokens to N.response, and the client has received those tokens in
\* order and then complete(N).
TurnAddsOneAnsweredNode ==
    [][\A k \in Conns :
         LET c == ws[k].conversation_id
             N == ws'[k].new_node
         IN  /\ (ws[k].pc = "receive" /\ ws'[k].pc = "stream") =>
                   /\ N \notin DOMAIN nodes
                   /\ DOMAIN nodes' = DOMAIN nodes \cup {N}
                   /\ \A m \in DOMAIN nodes : nodes'[m] = nodes[m]
                   /\ nodes'[N].parent_id \in DOMAIN nodes
                   /\ nodes'[N].conversation_id = c
                   /\ nodes'[N].query = <<ws'[k].query>>
                   /\ \E e \in DOMAIN edges' \ DOMAIN edges :
                        /\ DOMAIN edges' = DOMAIN edges \cup {e}
                        /\ edges'[e] = [source_node_id |-> nodes'[N].parent_id,
                                        target_node_id |-> N,
                                        query_text |-> ws'[k].query]
                   /\ \A e \in DOMAIN edges : edges'[e] = edges[e]
                   /\ c \in DOMAIN conversations =>
                        conversations'[c].active_node_id = N
             /\ (ws[k].pc = "stream" /\ ws'[k].pc = "stream" /\ ws'[k] # ws[k]) =>
                   /\ UNCHANGED store
                   /\ Relayed(ws'[k].sent) = ws'[k].response_chunks
             /\ (ws[k].pc = "stream" /\ ws'[k].pc = "finally" /\ ws'[k].ended # 0) =>
                   /\ N = ws[k].new_node
                   /\ Relayed(ws[k].sent) = ws[k].response_chunks
                   /\ ~ws'[k].gone =>
                        ws'[k].sent = Append(ws[k].sent, StreamComplete(N))
                   /\ DOMAIN nodes' = DOMAIN nodes
                   /\ \A m \in DOMAIN nodes \ {N} : nodes'[m] = nodes[m]
                   /\ N \in DOMAIN nodes =>
                        /\ nodes'[N].response = <<Concatenated(ws[k].response_chunks)>>
                        /\ nodes'[N].query = nodes[N].query
                        /\ nodes'[N].parent_id = nodes[N].parent_id
                   /\ UNCHANGED <<conversations, edges>>]_vars

\* the turn "Hi" on a new conversation, answered "Hel", "lo", has completed
HelloTurnCompleted ==
    /\ DOMAIN nodes = {1, 2} /\ DOMAIN edges = {1}
    /\ nodes[2].parent_id = 1 /\ nodes[2].query = <<"Hi">>
    /\ nodes[2].response = <<"Hello">>
    /\ edges[1] = [source_node_id |-> 1, target_node_id |-> 2, query_text |-> "Hi"]
    /\ 1 \in DOMAIN conversations /\ conversations[1].active_node_id = 2
    /\ ws[1].sent = <<StreamToken("Hel"), StreamToken("lo"), StreamComplete(2)>>

\* C13: a turn whose candidates have all failed without a token sends no
\* token and exactly one error, and rolls nothing back: the turn starts by
\* storing its node with response "" and its edge and making the node the
\* active one, and no step of the turn before its end changes anything
\* stored, the step of the last failure included.
AllRejectedKeepsEmptyNode ==
    [][\A k \in Conns :
         LET N == ws[k].new_node
         IN  /\ (ws[k].pc = "receive" /\ ws'[k].pc = "stream") =>
                   /\ nodes'[ws'[k].new_node].response = <<"">>
                   /\ \E e \in DOMAIN edges' :
                        /\ edges'[e].target_node_id = ws'[k].new_node
                        /\ edges'[e].source_node_id = nodes'[ws'[k].new_node].parent_id
                   /\ ws[k].conversation_id \in DOMAIN conversations =>
                        conversations'[ws[k].conversation_id].active_node_id
                          = ws'[k].new_node
             /\ (ws[k].pc = "stream" /\ ws'[k] # ws[k] /\ ws'[k].ended = 0) =>
                   UNCHANGED store
             /\ (/\ ws[k].pc = "stream" /\ ws'[k].pc = "finally"
                 /\ ws[k].response_chunks = <<>>
                 /\ ws'[k].failed = 1..Len(Candidates(ws[k]))) =>
                   /\ ws'[k].sent = IF ws'[k].gone THEN <<>>
                                    ELSE <<StreamError("All models failed")>>
                   /\ N \in DOMAIN nodes => nodes'[N].response = <<"">>]_vars

\* every candidate has rejected: one error and no token were sent, and the
\* node of the turn is stored, empty, and is the active node
AllRejectedNodeKept ==
    /\ ws[1].pc = "finally" /\ ws[1].failed = 1..MaxModels
    /\ ws[1].sent = <<StreamError("All models failed")>>
    /\ ws[1].new_node \in DOMAIN nodes
    /\ nodes[ws[1].new_node].response = <<"">>
    /\ ws[1].conversation_id \in DOMAIN conversations
    /\ conversations[ws[1].conversation_id].active_node_id = ws[1].new_node
    /\ \E e \in DOMAIN edges : edges[e].target_node_id = ws[1].new_node

\* C14: a connection that ends where it waited for its request (the message
\* did not validate, or the client left, or the parent is unknown) has
\* stored nothing and changed no conversation, and has sent one error if
\* the client is still there.
MalformedRequestCreatesNothing ==
    [][\A k \in Conns :
         (ws[k].pc = "receive" /\ ws'[k].pc = "finally") =>
            /\ UNCHANGED store
            /\ ws'[k].new_node = None
            /\ ~ws'[k].gone =>
                 /\ Len(ws'[k].sent) = 1
                 /\ ws'[k].sent[1].type = "error"]_vars

\* a message that did not validate was answered with the error, in a
\* conversation that still has its root only
MalformedRequestRefused ==
    /\ ws[1].pc = "finally"
    /\ ws[1].sent = <<StreamError("validation error")>>
    /\ ws[1].conversation_id \in DOMAIN conversations
    /\ get_conversation_nodes(nodes, ws[1].conversation_id)
         = {conversations[ws[1].conversation_id].root_node_id}
    /\ edges = <<>>

\* the last message of a connection
LastSent(w) == IF w.sent = <<>> THEN NoReply ELSE w.sent[Len(w.sent)]

\* C15: a request for an unknown conversation or node is answered 404, a
\* 404 changes nothing stored, and so does a connection refused with
\* "Conversation not found" or "Parent node not found".
NotFoundChangesNothing ==
    [][/\ reply'.status = 404 => UNCHANGED store
       /\ (/\ reply'.op \in {"get_conversation", "get_conversation_graph",
                              "delete_conversation", "select_node", "get_node",
                              "delete_node", "get_ancestors", "get_children"}
           /\ \/ /\ reply'.conversation_id # None
                  /\ reply'.conversation_id \notin DOMAIN conversations
              \/ /\ reply'.node_id # None
                  /\ reply'.node_id \notin DOMAIN nodes)
          => reply'.status = 404
       /\ \A k \in Conns :
            /\ (ws[k].pc = "idle" /\ ws'[k].pc = "finally") =>
                  /\ UNCHANGED store
                  /\ ws'[k].conversation_id \notin DOMAIN conversations
                  /\ ~ws'[k].gone =>
                       ws'[k].sent = <<StreamError("Conversation not found")>>
            /\ (/\ ws'[k].sent # ws[k].sent
                /\ LastSent(ws'[k]) \in {StreamError("Conversation not found"),
                                         StreamError("Parent node not found")})
                  => UNCHANGED store]_vars

\* a turn on a stored conversation was refused for its unknown parent
UnknownParentRefused ==
    /\ ws[1].sent = <<StreamError("Parent node not found")>>
    /\ ws[1].conversation_id \in DOMAIN conversations
    /\ edges = <<>>

\* the nodes from the topmost stored ancestor of node_id down to node_id
RECURSIVE PathTo(_, _)
PathTo(ns, node_id) ==
    IF ns[node_id].parent_id = None \/ ns[node_id].parent_id \notin DOMAIN ns
    THEN <<node_id>>
    ELSE Append(PathTo(ns, ns[node_id].parent_id), node_id)

\* "User: query" and "Assistant: response" of the nodes path[i..] that
\* have both a non-empty query and a non-empty response
RECURSIVE AnsweredTurns(_, _, _)
AnsweredTurns(ns, path, i) ==
    IF i > Len(path) THEN <<>>
    ELSE LET a == ns[path[i]]
             answered == /\ a.query # <<>> /\ a.query # <<"">>
                         /\ a.response # <<>> /\ a.response # <<"">>
         IN  (IF answered
              THEN <<"User: " \o a.query[1], "Assistant: " \o a.response[1]>>
              ELSE <<>>) \o AnsweredTurns(ns, path, i + 1)

\* the fragments with a blank line between them
RECURSIVE Paragraphs(_)
Paragraphs(fragments) ==
    IF Len(fragments) = 1 THEN fragments[1]
    ELSE Paragraphs(SubSeq(fragments, 1, Len(fragments) - 1))
         \o "\n\n" \o fragments[Len(fragments)]

\* C16: the context stored on a new node is the context of the root of its
\* parent's path, then "User: query" and "Assistant: response" of every
\* later node of the path that has both non-empty, in path order, then
\* "User: new query".
ContextIsRootThenAnsweredTurns ==
    [][\A k \in Conns :
         (ws[k].pc = "receive" /\ ws'[k].pc = "stream") =>
            LET N == ws'[k].new_node
                path == PathTo(nodes, nodes'[N].parent_id)
            IN  /\ nodes[path[1]].parent_id = None
                /\ nodes'[N].context =
                     Paragraphs(<<nodes[path[1]].context>>
                                \o AnsweredTurns(nodes, path, 2)
                                \o <<"User: " \o ws'[k].query>>)]_vars

\* C17: POST /conversations is answered 200 and in one step adds exactly one
\* conversation and one node: the node without parent, query and response,
\* of the new conversation, and the conversation's root and active node both
\* that node; in every state each stored conversation's root_node_id is a
\* stored node without parent of that conversation.
CreateConversationAddsLinkedRoot ==
    [][/\ (reply'.op = "create_conversation") =>
            LET c == reply'.conversation_id
                r == reply'.node_id
            IN  /\ reply'.status = 200
                /\ c \notin DOMAIN conversations
                /\ DOMAIN conversations' = DOMAIN conversations \cup {c}
                /\ r \notin DOMAIN nodes
                /\ DOMAIN nodes' = DOMAIN nodes \cup {r}
                /\ nodes'[r].parent_id = None
                /\ nodes'[r].query = <<>> /\ nodes'[r].response = <<>>
                /\ nodes'[r].conversation_id = c
                /\ conversations'[c].root_node_id = r
                /\ conversations'[c].active_node_id = r
                /\ \A n \in DOMAIN nodes : nodes'[n] = nodes[n]
                /\ \A d \in DOMAIN conversations :
                     /\ conversations'[d].root_node_id = conversations[d].root_node_id
                     /\ conversations'[d].active_node_id = conversations[d].active_node_id
                /\ edges' = edges
       /\ \A c \in DOMAIN conversations' :
            LET r == conversations'[c].root_node_id
            IN  /\ r \in DOMAIN nodes'
                /\ nodes'[r].parent_id = None
                /\ nodes'[r].conversation_id = c]_vars

\* a second conversation has just been created next to the first
SecondConversationCreated ==
    /\ reply.op = "create_conversation" /\ reply.conversation_id = 2
    /\ DOMAIN conversations = {1, 2}
    /\ conversations[2].active_node_id = reply.node_id
    /\ conversations[2].root_node_id = reply.node_id

\* C18: the list GET /conversations returns holds every stored conversation
\* once, updated_at descending; a conversation just changed by a successful
\* select or by the start of a turn has the latest updated_at of all, and
\* is the first of the list.
ListIsMostRecentFirst ==
    [][/\ (reply'.op = "list_conversations") =>
            LET body == reply'.body
            IN  /\ {body[i] : i \in 1..Len(body)} = DOMAIN conversations'
                /\ Len(body) = Cardinality(DOMAIN conversations')
                /\ \A i, j \in 1..Len(body) :
                     i < j => conversations'[body[i]].updated_at
                                >= conversations'[body[j]].updated_at
       /\ \A c \in DOMAIN conversations' :
            (\/ /\ reply'.op = "select_node" /\ reply'.status = 200
                /\ reply'.conversation_id = c
             \/ \E k \in Conns : /\ ws[k].pc = "receive" /\ ws'[k].pc = "stream"
                                 /\ ws[k].conversation_id = c)
            => /\ \A d \in DOMAIN conversations' \ {c} :
                    conversations'[c].updated_at > conversations'[d].updated_at
               /\ list_conversations(conversations')[1] = c]_vars

\* the conversation created first is listed before the one created second
OlderConversationListedFirst ==
    /\ reply.op = "list_conversations"
    /\ reply.body = <<1, 2>>

ListCreatesDefaultOnlyWhenEmpty ==
    [][(reply'.op = "list_conversations") =>
         /\ reply'.body # <<>>
         /\ IF DOMAIN conversations = {}
            THEN \E c \in DOMAIN conversations', r \in DOMAIN nodes' \ DOMAIN nodes :
                   /\ DOMAIN conversations' = {c}
                   /\ DOMAIN nodes' = DOMAIN nodes \cup {r}
                   /\ \A n \in DOMAIN nodes : nodes'[n] = nodes[n]
                   /\ nodes'[r].parent_id = None
                   /\ nodes'[r].conversation_id = c
                   /\ nodes'[r].context = DefaultContext
                   /\ conversations'[c].root_node_id = r
                   /\ conversations'[c].active_node_id = r
                   /\ reply'.body = <<c>>
                   /\ edges' = edges
            ELSE UNCHANGED store]_vars

\* the default conversation was created by the list request and returned
DefaultConversationListed ==
    /\ reply.op = "list_conversations" /\ reply.body = <<1>>
    /\ DOMAIN conversations = {1} /\ DOMAIN nodes = {1}
    /\ nodes[1].context = DefaultContext

\* C21: the step that starts a turn stores the new node and its edge and
\* makes the node the active one, with no candidate opened and nothing sent
\* yet; a candidate is opened or a token sent only in a turn that has done
\* so; and in every step a new non-root node comes with its edge, a new edge
\* with its target node, and the node is then the active node of its
\* conversation if that is stored.
NodeEdgeActiveBeforeStreaming ==
    [][/\ \A k \in Conns :
            /\ (ws[k].pc = "receive" /\ ws'[k].pc = "stream") =>
                  LET N == ws'[k].new_node
                      c == ws[k].conversation_id
                  IN  /\ N \in DOMAIN nodes' \ DOMAIN nodes
                      /\ \E e \in DOMAIN edges' \ DOMAIN edges :
                           /\ edges'[e].target_node_id = N
                           /\ edges'[e].source_node_id = nodes'[N].parent_id
                      /\ c \in DOMAIN conversations' =>
                           conversations'[c].active_node_id = N
                      /\ ws'[k].opened = <<>> /\ ws'[k].sent = <<>>
            /\ (\/ Len(ws'[k].opened) > Len(ws[k].opened)
                \/ /\ Len(ws'[k].sent) > Len(ws[k].sent)
                   /\ LastSent(ws'[k]).type = "token")
                  => /\ ws[k].pc = "stream"
                     /\ ws[k].new_node # None
       /\ \A n \in DOMAIN nodes' \ DOMAIN nodes :
            nodes'[n].parent_id # None =>
               /\ \E e \in DOMAIN edges' \ DOMAIN edges :
                    edges'[e].target_node_id = n
               /\ nodes'[n].conversation_id \in DOMAIN conversations' =>
                    conversations'[nodes'[n].conversation_id].active_node_id = n
       /\ \A e \in DOMAIN edges' \ DOMAIN edges :
            edges'[e].target_node_id \in DOMAIN nodes' \ DOMAIN nodes]_vars

\* a turn has stored its node and its edge and made the node the active
\* one, and has neither opened a candidate nor sent anything
TurnCommittedBeforeFirstCandidate ==
    /\ ws[1].pc = "stream" /\ ws[1].opened = <<>> /\ ws[1].sent = <<>>
    /\ ws[1].new_node \in DOMAIN nodes
    /\ \E e \in DOMAIN edges : edges[e].target_node_id = ws[1].new_node
    /\ ws[1].conversation_id \in DOMAIN conversations
    /\ conversations[ws[1].conversation_id].active_node_id = ws[1].new_node

\* C22: a send of a token that fails because the client has disconnected
\* ends the turn: no further candidate is opened, nothing more is sent,
\* nothing stored changes, so that the node of the turn, if still stored,
\* keeps response "" and no latency_ms; the only step left to the
\* connection is the close, which changes nothing stored either.
DisconnectMidStreamKeepsCommitted ==
    [][\A k \in Conns :
         LET N == ws[k].new_node
         IN  /\ (/\ ws[k].pc = "stream" /\ ws'[k].gone
                 /\ ws'[k].ended = 0 /\ ws'[k].failed = ws[k].failed) =>
                   /\ ws'[k].pc = "finally"
                   /\ ws'[k].opened = ws[k].opened
                   /\ ws'[k].sent = ws[k].sent
                   /\ UNCHANGED store
                   /\ N \in DOMAIN nodes' =>
                        /\ nodes'[N].response = <<"">>
                        /\ nodes'[N].latency_ms = NoInt
             /\ (ws[k].gone /\ ws'[k] # ws[k]) =>
                   /\ ws[k].pc = "finally"
                   /\ ws'[k] = Idle
                   /\ UNCHANGED store]_vars

\* the client left after the first token: nothing else was sent, no second
\* candidate opened, and the node is stored with its edge, empty and active
ClientLeftAfterFirstToken ==
    /\ ws[1].pc = "finally" /\ ws[1].gone
    /\ ws[1].sent = <<StreamToken("Hel")>> /\ ws[1].opened = <<1>>
    /\ ws[1].new_node \in DOMAIN nodes
    /\ nodes[ws[1].new_node].response = <<"">>
    /\ nodes[ws[1].new_node].latency_ms = NoInt
    /\ \E e \in DOMAIN edges : edges[e].target_node_id = ws[1].new_node
    /\ ws[1].conversation_id \in DOMAIN conversations
    /\ conversations[ws[1].conversation_id].active_node_id = ws[1].new_node

\* C23: reading a malformed fragment from an accepted candidate changes
\* nothing: the turn stays on the same candidate, which is neither failed
\* nor ended, no token is added or sent, and nothing stored changes.
MalformedFragmentIsSkipped ==
    [][\A k \in Conns :
         ws'[k].malformed > ws[k].malformed =>
            /\ ws'[k] = [ws[k] EXCEPT !.malformed = @ + 1]
            /\ UNCHANGED store]_vars

\* C24: every stored edge joins a stored node to a stored child of it, and
\* every stored node with a parent is the target of exactly one stored edge.
EdgesMatchNonRootNodes ==
    /\ \A e \in DOMAIN edges :
         /\ edges[e].source_node_id \in DOMAIN nodes
         /\ edges[e].target_node_id \in DOMAIN nodes
         /\ nodes[edges[e].target_node_id].parent_id = edges[e].source_node_id
    /\ \A n \in DOMAIN nodes :
         nodes[n].parent_id # None =>
            Cardinality({e \in DOMAIN edges : edges[e].target_node_id = n}) = 1

\* C25: the request of a turn has the context of the root of the parent's
\* path as system message, and as user message the fragments of the answered
\* turns of the path, in path order, followed by "User: new query" once.
LlmRequestIsTranscriptThenQuery ==
    [][\A k \in Conns :
         (ws[k].pc = "receive" /\ ws'[k].pc = "stream") =>
            LET N == ws'[k].new_node
                path == PathTo(nodes, nodes'[N].parent_id)
                turns == AnsweredTurns(nodes, path, 2)
                q == "User: " \o ws'[k].query
            IN  /\ ws'[k].messages.system = nodes[path[1]].context
                /\ ws'[k].messages.user \in
                     {Join("\n", turns \o <<q>>),
                      IF turns = <<>> THEN q
                      ELSE Join("\n", turns) \o "\n\n" \o q}]_vars

\* C26: a connection that is open is eventually where only the close is left
\* to do, and is then closed; a turn leaves the stream only for that place,
\* its completion sent, or every candidate failed, or the client gone, with
\* no more candidates opened than there are; and a connection is closed only
\* from that place, by a step that changes nothing stored.
EveryConnectionIsClosed ==
    /\ \A k \in Conns : (ws[k].pc # "idle") ~> (ws[k].pc = "finally")
    /\ \A k \in Conns : (ws[k].pc = "finally") ~> (ws[k].pc = "idle")
    /\ [][\A k \in Conns :
            /\ (ws[k].pc = "stream" /\ ws'[k].pc # "stream") =>
                  /\ ws'[k].pc = "finally"
                  /\ \/ ws'[k].ended # 0
                     \/ ws'[k].failed = 1..Len(Candidates(ws[k]))
                     \/ ws'[k].gone
                  /\ Len(ws'[k].opened) <= Len(Candidates(ws[k]))
                  /\ \A i, j \in 1..Len(ws'[k].opened) :
                       ws'[k].opened[i] = ws'[k].opened[j] => i = j
            /\ (ws[k].pc # "idle" /\ ws'[k].pc = "idle") =>
                  /\ ws[k].pc = "finally"
                  /\ UNCHANGED store]_vars

\* the connection of a turn that was answered has been closed
AnsweredTurnClosed ==
    /\ ws[1].pc = "idle"
    /\ \E n \in DOMAIN nodes : nodes[n].latency_ms # NoInt

\* C27: the step that sends complete(N) leaves N stored, with the
\* concatenation of the tokens relayed in the turn as its response, and the
\* conversation of the turn stored with a stored active node.
CompleteNamesStoredAnsweredNode ==
    [][\A k \in Conns :
         (/\ Len(ws'[k].sent) > Len(ws[k].sent)
          /\ LastSent(ws'[k]).type = "complete") =>
            LET N == LastSent(ws'[k]).node_id
                c == ws[k].conversation_id
            IN  /\ N \in DOMAIN nodes'
                /\ nodes'[N].response = <<Concatenated(Relayed(ws[k].sent))>>
                /\ c \in DOMAIN conversations'
                /\ conversations'[c].active_node_id \in DOMAIN nodes']_vars

\* C28: the context of every node whose turn has completed is the root's
\* context, then the pair of every later node of its parent's path that has
\* a query and a non-empty response now, then "User: " and its own query.
CompletedContextHasAnsweredAncestors ==
    \A n \in DOMAIN nodes :
        (nodes[n].parent_id # None /\ nodes[n].latency_ms # NoInt) =>
           LET path == PathTo(nodes, nodes[n].parent_id)
           IN  nodes[n].context =
                 Paragraphs(<<nodes[path[1]].context>>
                            \o AnsweredTurns(nodes, path, 2)
                            \o <<"User: " \o nodes[n].query[1]>>)

\* C29: every stored node is of a stored conversation.
NoOrphanNodes ==
    \A n \in DOMAIN nodes : nodes[n].conversation_id \in DOMAIN conversations

====
